---- MODULE Spec2Model ----
(***************************************************************************)
(* Model of the orchestration layer of clinical_agents_ui:                 *)
(*   - agents/nursebot.py    the intake dialogue graph (chatbot <-> human) *)
(*   - agents/triageagent.py the Nurse/Doctor refinement workflow          *)
(*   - app.py                the session state of the chat user interface  *)
(* Text is a sequence of one-character strings, so that str.strip() and    *)
(* str.lower() are computed and not assumed.                               *)
(***************************************************************************)
EXTENDS Integers, Sequences, FiniteSets, TLC

VARIABLES
    state,       \* SymptomState of the running chat graph: messages, notes, finished
    node,        \* the node the graph engine runs next, or how the run ended
    step,        \* number of graph steps (node executions) of this run so far
    llm_calls,   \* the calls of llm_with_tools.invoke made so far, in order
    turns,       \* number of user inputs read by human_node so far
    user_input,  \* the input human_node read last (stripped)
    before,      \* the SymptomState human_node was entered with last
    note,        \* the note run_triage_workflow was called with
    tstate,      \* the dict threaded through the triage graph
    tnode,       \* the triage node that runs next, or how the run ended
    pending,     \* the triage inference call in flight, or NoCall
    tcalls,      \* the triage inference calls issued so far, in order
    returns,     \* the texts the triage inference calls returned, in order
    result,      \* what run_triage_workflow returned, or NoResult
    session,     \* st.session_state of one browser session
    script,      \* where the script run of the session is: idle, or in a call of the chat API
    api_log      \* the calls of APIService.send_chat_message so far, in order

chatVars   == <<state, node, step, llm_calls, turns, user_input, before>>
triageVars == <<note, tstate, tnode, pending, tcalls, returns, result>>
uiVars     == <<session, script, api_log>>
vars       == <<state, node, step, llm_calls, turns, user_input, before,
                note, tstate, tnode, pending, tcalls, returns, result,
                session, script, api_log>>

-----------------------------------------------------------------------------
(* Bounds of the model *)

\* the rich dialogue specification stops after this many graph steps
MaxSteps == 7

\* a triage run is cut off after this many inference calls
MaxCalls == 6

\* a browser session is cut off after this many calls of the chat API
MaxRequests == 4

-----------------------------------------------------------------------------
(* Text *)

UpperCase == <<"A","B","C","D","E","F","G","H","I","J","K","L","M",
               "N","O","P","Q","R","S","T","U","V","W","X","Y","Z">>
LowerCase == <<"a","b","c","d","e","f","g","h","i","j","k","l","m",
               "n","o","p","q","r","s","t","u","v","w","x","y","z">>

Whitespace == {" ", "\t", "\n"}

\* str.lower() on one character
LowerChar(c) ==
    IF \E i \in 1..Len(UpperCase) : UpperCase[i] = c
    THEN LowerCase[CHOOSE i \in 1..Len(UpperCase) : UpperCase[i] = c]
    ELSE c

\* str.lower()
Lower(s) == [i \in 1..Len(s) |-> LowerChar(s[i])]

RECURSIVE LStrip(_)
LStrip(s) == IF s # <<>> /\ Head(s) \in Whitespace THEN LStrip(Tail(s)) ELSE s

RECURSIVE RStrip(_)
RStrip(s) ==
    IF s # <<>> /\ s[Len(s)] \in Whitespace
    THEN RStrip(SubSeq(s, 1, Len(s) - 1))
    ELSE s

\* str.strip()
Strip(s) == RStrip(LStrip(s))

-----------------------------------------------------------------------------
(* agents/nursebot.py *)

NURSEBOT_SYSINT == <<"N","u","r","s","e","B","o","t">>
WELCOME_MSG     == <<"W","e","l","c","o","m","e">>

ExitKeywords ==
    { <<"q">>, <<"q","u","i","t">>, <<"e","x","i","t">>,
      <<"t","h","a","n","k"," ","y","o","u">> }

RecursionLimit == 100

\* a message; id 0 is a message that has not been given an id yet
Message(role, content, tool_calls) ==
    [role |-> role, content |-> content, tool_calls |-> tool_calls, id |-> 0]

ToolCall(name, args) == [name |-> name, args |-> args]

\* largest id among the messages of a list
MaxId(msgs) ==
    LET ids == {0} \cup {msgs[i].id : i \in 1..Len(msgs)}
    IN  CHOOSE n \in ids : \A k \in ids : k <= n

\* the reducer, had it been plain list concatenation
add_messages_Concat(left, right) == left \o right

\* the messages reducer: every message of the update without an id gets a
\* fresh one; a message of the update whose id is already in the list
\* replaces that entry in place, any other is appended
add_messages(left, right) ==
    LET base     == MaxId(left \o right)
        update   == [i \in 1..Len(right) |->
                        IF right[i].id = 0 THEN [right[i] EXCEPT !.id = base + i]
                        ELSE right[i]]
        Known(m) == \E i \in 1..Len(left) : left[i].id = m.id
        New(m)   == ~Known(m)
        Last(id) == CHOOSE j \in 1..Len(update) :
                        /\ update[j].id = id
                        /\ \A k \in (j + 1)..Len(update) : update[k].id # id
        merged   == [i \in 1..Len(left) |->
                        IF \E j \in 1..Len(update) : update[j].id = left[i].id
                        THEN update[Last(left[i].id)]
                        ELSE left[i]]
    IN  merged \o SelectSeq(update, New)

\* the loop, had it asked for a non-empty text
RECURSIVE RecordNotes_NonEmpty(_, _, _)
RecordNotes_NonEmpty(calls, new_notes, finished) ==
    IF calls = <<>> THEN <<new_notes, finished>>
    ELSE LET call == Head(calls)
         IN  IF /\ call.name = "take_note"
                /\ "text" \in DOMAIN call.args
                /\ call.args["text"] # <<>>
             THEN RecordNotes_NonEmpty(Tail(calls), Append(new_notes, call.args["text"]), TRUE)
             ELSE RecordNotes_NonEmpty(Tail(calls), new_notes, finished)

\* the loop, had it not looked at the name of the tool
RECURSIVE RecordNotes_AnyName(_, _, _)
RecordNotes_AnyName(calls, new_notes, finished) ==
    IF calls = <<>> THEN <<new_notes, finished>>
    ELSE LET call == Head(calls)
         IN  IF "text" \in DOMAIN call.args
             THEN RecordNotes_AnyName(Tail(calls), Append(new_notes, call.args["text"]), TRUE)
             ELSE RecordNotes_AnyName(Tail(calls), new_notes, finished)

\* the loop, had it recorded the note without finishing the conversation
RECURSIVE RecordNotes_NoFinish(_, _, _)
RecordNotes_NoFinish(calls, new_notes, finished) ==
    IF calls = <<>> THEN <<new_notes, finished>>
    ELSE LET call == Head(calls)
         IN  IF call.name = "take_note" /\ "text" \in DOMAIN call.args
             THEN RecordNotes_NoFinish(Tail(calls), Append(new_notes, call.args["text"]), finished)
             ELSE RecordNotes_NoFinish(Tail(calls), new_notes, finished)

\* the loop over response.tool_calls in chatbot_node: (notes, finished) after it
RECURSIVE RecordNotes(_, _, _)
RecordNotes(calls, new_notes, finished) ==
    IF calls = <<>> THEN <<new_notes, finished>>
    ELSE LET call == Head(calls)
         IN  IF call.name = "take_note" /\ "text" \in DOMAIN call.args
             THEN RecordNotes(Tail(calls), Append(new_notes, call.args["text"]), TRUE)
             ELSE RecordNotes(Tail(calls), new_notes, finished)

\* human_node, given what input() returned: the state it returns
human_node(s, raw) ==
    LET input == Strip(raw)
    IN  IF Lower(input) \in ExitKeywords
        THEN [s EXCEPT !.finished = TRUE]
        ELSE [s EXCEPT !.messages = s.messages \o <<Message("user", input, <<>>)>>]

\* whether chatbot_node calls the model (it does not for the welcome)
CallsModel(s) == s.messages # <<>>

\* what chatbot_node hands to llm_with_tools.invoke
ModelInput(s) == <<Message("system", NURSEBOT_SYSINT, <<>>)>> \o s.messages

\* chatbot_node, given what the model answered: the state it returns
chatbot_node(s, answer) ==
    LET response == IF CallsModel(s) THEN answer
                    ELSE Message("ai", WELCOME_MSG, <<>>)
        rec      == RecordNotes(response.tool_calls, s.notes, s.finished)
    IN  [messages |-> s.messages \o <<response>>,
         notes    |-> rec[1],
         finished |-> rec[2]]

\* the edge, had the controller capped the dialogue itself
maybe_exit_chatbot_node_Capped(s) ==
    IF s.finished \/ Len(s.messages) > 20 THEN "END" ELSE "human"

\* the conditional edge out of chatbot
maybe_exit_chatbot_node(s) == IF s.finished THEN "END" ELSE "human"

\* the edge out of human (the conditional edge maybe_exit_human_node is
\* commented out in the source)
HumanEdge(s) == "chatbot"

\* the graph engine writes a node's return value to the channels
ApplyUpdate(s, update) ==
    [messages |-> add_messages(s.messages, update.messages),
     notes    |-> update.notes,
     finished |-> update.finished]

\* the graph engine after a step: the run ends at END, is aborted with
\* GraphRecursionError once recursion_limit steps have run without reaching
\* END, and goes on to the next node otherwise
Engine(next, steps, limit) ==
    IF next = "END" THEN "END"
    ELSE IF steps >= limit THEN "GraphRecursionError"
    ELSE next

\* run_chat: the graph is invoked with an empty state; START leads to chatbot
ChatInit ==
    /\ state = [messages |-> <<>>, notes |-> <<>>, finished |-> FALSE]
    /\ node = "chatbot"
    /\ step = 0
    /\ llm_calls = <<>>
    /\ turns = 0
    /\ user_input = <<>>
    /\ before = [messages |-> <<>>, notes |-> <<>>, finished |-> FALSE]

\* one step of the graph at chatbot, the model answering one of answers
ChatbotStep(answers) ==
    /\ node = "chatbot"
    /\ \E answer \in answers :
          LET new == ApplyUpdate(state, chatbot_node(state, answer))
          IN  /\ state' = new
              /\ node' = Engine(maybe_exit_chatbot_node(new), step + 1, RecursionLimit)
    /\ llm_calls' = IF CallsModel(state)
                    THEN Append(llm_calls, [input    |-> ModelInput(state),
                                            finished |-> state.finished])
                    ELSE llm_calls
    /\ step' = step + 1
    /\ UNCHANGED <<turns, user_input, before>>

\* one step of the graph at human, the user typing one of inputs
HumanStep(inputs) ==
    /\ node = "human"
    /\ \E raw \in inputs :
          LET new == ApplyUpdate(state, human_node(state, raw))
          IN  /\ state' = new
              /\ node' = Engine(HumanEdge(new), step + 1, RecursionLimit)
              /\ user_input' = Strip(raw)
    /\ before' = state
    /\ turns' = turns + 1
    /\ step' = step + 1
    /\ UNCHANGED llm_calls

\* what the user may type in the rich dialogue specification
RawInputs ==
    { <<" ","q"," ">>, <<"Q","U","I","T">>, <<"E","x","i","t">>,
      <<"T","h","a","n","k"," ","Y","o","u">>,
      <<"h","i">>, <<"q","u","i","t","!">>, <<>> }

Flu == <<"f","l","u">>

PlainAnswer    == Message("ai", <<"o","k">>, <<>>)
NoteAnswer     == Message("ai", <<>>, <<ToolCall("take_note", [text |-> Flu])>>)
EmptyNote      == Message("ai", <<>>, <<ToolCall("take_note", [text |-> <<>>])>>)
NoTextAnswer   == Message("ai", <<>>, <<ToolCall("take_note", [symptom |-> Flu])>>)
OtherAnswer    == Message("ai", <<"o","k">>, <<ToolCall("lookup", [text |-> Flu])>>)
TwoNotesAnswer ==
    Message("ai", <<>>, <<ToolCall("lookup", [text |-> Flu]),
                          ToolCall("take_note", [text |-> <<"a">>]),
                          ToolCall("take_note", [text |-> <<"b">>])>>)

\* what the model may answer in the rich dialogue specification
Answers ==
    {PlainAnswer, NoteAnswer, EmptyNote, NoTextAnswer, OtherAnswer, TwoNotesAnswer}

\* the long dialogue specification: few inputs, every step up to recursion_limit
FewInputs  == { <<"h","i">>, <<"Q">> }
FewAnswers == {PlainAnswer, NoteAnswer}

-----------------------------------------------------------------------------
(* agents/triageagent.py *)

NA == <<"N","/","A">>

\* dict.get(key, default)
Get(d, key, default) == IF key \in DOMAIN d THEN d[key] ELSE default

\* {**d, key: value}
Put(d, key, value) ==
    [k \in DOMAIN d \cup {key} |-> IF k = key THEN value ELSE d[k]]

\* what the chain returns: a str (completion model) or a message object
StrResponse(t) == [type |-> "str", value |-> t]
MsgResponse(t) == [type |-> "AIMessage", content |-> t]

\* the isinstance(response, str) branch of both steps
ResponseText(response) ==
    IF response.type = "str" THEN response.value ELSE response.content

\* the inputs, had the doctor's message not been fed back
nurse_inputs_NoFeedback(s) == [note |-> s["note"], doctor_msg |-> <<>>]

\* the inputs nurse_step fills nurse_prompt with
nurse_inputs(s) ==
    [note |-> s["note"], doctor_msg |-> Get(s, "doctor_msg", <<>>)]

\* nurse_step, had it kept an assessment it already has
nurse_step_KeepFirst(s, response) ==
    IF "nurse_msg" \in DOMAIN s THEN s ELSE Put(s, "nurse_msg", ResponseText(response))

\* nurse_step, given what the chain returned
nurse_step(s, response) == Put(s, "nurse_msg", ResponseText(response))

\* the inputs doctor_step fills doctor_prompt with
doctor_inputs(s) ==
    [note |-> s["note"], nurse_msg |-> s["nurse_msg"]]

\* doctor_step, had the counter's default been 1
doctor_step_CountFromOne(s, response) ==
    Put(Put(s, "doctor_msg", ResponseText(response)),
        "iteration", Get(s, "iteration", 1) + 1)

\* doctor_step, had it not counted the iteration
doctor_step_NoIncrement(s, response) ==
    Put(Put(s, "doctor_msg", ResponseText(response)),
        "iteration", Get(s, "iteration", 0))

\* doctor_step, given what the chain returned
doctor_step(s, response) ==
    Put(Put(s, "doctor_msg", ResponseText(response)),
        "iteration", Get(s, "iteration", 0) + 1)

\* the edge, had the comparison been <=
DoctorEdge_OffByOne(s) == IF Get(s, "iteration", 0) <= 2 THEN "Nurse" ELSE "END"

\* the conditional edge out of Doctor
DoctorEdge(s) == IF Get(s, "iteration", 0) < 2 THEN "Nurse" ELSE "END"

\* the edge out of Nurse
NurseEdge(s) == "Doctor"

\* the record run_triage_workflow builds from the final state
TriageResult(final) ==
    [returned   |-> TRUE,
     esi        |-> Get(final, "nurse_msg", NA),
     diagnosis  |-> Get(final, "doctor_msg", NA),
     iterations |-> Get(final, "iteration", 0)]

NoResult == [returned |-> FALSE]
NoCall   == [role |-> "none"]

PatientNotes == { <<"c","h","e","s","t">>, Flu }
Outputs      == { <<"E","S","I"," ","2">>, <<"L","e","v","e","l","4">>, <<"M","I">> }
Responses    == {StrResponse(t) : t \in Outputs} \cup {MsgResponse(t) : t \in Outputs}

\* run_triage_workflow(note): app.invoke({"note": note}), entry point Nurse
TriageInit ==
    /\ note \in PatientNotes
    /\ tstate = [note |-> note]
    /\ tnode = "Nurse"
    /\ pending = NoCall
    /\ tcalls = <<>>
    /\ returns = <<>>
    /\ result = NoResult

\* a step issues its inference call
IssueCall(role, inputs) ==
    /\ pending.role = "none"
    /\ Len(tcalls) < MaxCalls
    /\ pending' = [role |-> role, inputs |-> inputs]
    /\ tcalls' = Append(tcalls, [role |-> role, inputs |-> inputs])
    /\ UNCHANGED <<note, tstate, tnode, returns, result>>

NurseCall  == tnode = "Nurse"  /\ IssueCall("Nurse", nurse_inputs(tstate))
DoctorCall == tnode = "Doctor" /\ IssueCall("Doctor", doctor_inputs(tstate))

\* the call of nurse_step returns: the step ends and the edge is followed
NurseReturn ==
    /\ pending.role = "Nurse"
    /\ \E response \in Responses :
          /\ tstate' = nurse_step(tstate, response)
          /\ tnode' = NurseEdge(tstate')
          /\ returns' = Append(returns, [role |-> "Nurse", text |-> ResponseText(response)])
    /\ pending' = NoCall
    /\ UNCHANGED <<note, tcalls, result>>

\* the call of doctor_step returns: the step ends and the edge is followed
DoctorReturn ==
    /\ pending.role = "Doctor"
    /\ \E response \in Responses :
          /\ tstate' = doctor_step(tstate, response)
          /\ tnode' = DoctorEdge(tstate')
          /\ returns' = Append(returns, [role |-> "Doctor", text |-> ResponseText(response)])
    /\ pending' = NoCall
    /\ UNCHANGED <<note, tcalls, result>>

\* the failure, had it been swallowed and the run ended with what it has
InferenceFails_Partial ==
    /\ pending.role # "none"
    /\ tnode' = "END"
    /\ pending' = NoCall
    /\ UNCHANGED <<note, tstate, tcalls, returns, result>>

\* the call in flight raises: neither step nor run_triage_workflow catches it
InferenceFails ==
    /\ pending.role # "none"
    /\ tnode' = "raised"
    /\ pending' = NoCall
    /\ UNCHANGED <<note, tstate, tcalls, returns, result>>

\* the graph reached END: run_triage_workflow builds and returns its record
TriageReturn ==
    /\ tnode = "END"
    /\ result' = TriageResult(tstate)
    /\ tnode' = "returned"
    /\ UNCHANGED <<note, tstate, pending, tcalls, returns>>

-----------------------------------------------------------------------------
(* app.py *)

\* SessionStateManager.init_state: the defaults of the keys the chat reads
SessionDefaults ==
    [auth_done   |-> FALSE,
     user_type   |-> "none",
     messages    |-> <<>>,
     chat_active |-> FALSE,
     finished    |-> FALSE]

ChatMessage(role, content) == [role |-> role, content |-> content]

\* SessionStateManager.reset_chat
reset_chat(s) ==
    [s EXCEPT !.messages = <<>>, !.chat_active = FALSE, !.finished = FALSE]

\* main: the chat interface is rendered for a signed-in patient
ChatRendered(s) == s.auth_done /\ s.user_type = "patient"

\* render_chat_interface: which controls are shown
StartShown(s)     == ~s.chat_active
ResetShown(s)     == s.chat_active
ChatInputShown(s) == s.chat_active /\ ~s.finished

\* _start_new_assessment up to its call of the chat API
StartBegin(s) ==
    [s EXCEPT !.chat_active = TRUE, !.messages = <<>>, !.finished = FALSE]

\* _start_new_assessment after the call: (success, response) is what
\* send_chat_message returned
StartEnd(s, success, response) ==
    IF success
    THEN [s EXCEPT !.messages = Append(@, ChatMessage("assistant", response["response"]))]
    ELSE [s EXCEPT !.chat_active = FALSE]

\* _handle_user_message up to its call of the chat API
HandleBegin(s, text) ==
    [s EXCEPT !.messages = Append(@, ChatMessage("user", text))]

\* the history _handle_user_message sends
History(s) ==
    [i \in 1..Len(s.messages) |->
        [role |-> s.messages[i].role, content |-> s.messages[i].content]]

\* _handle_user_message, had it taken the user's message back on failure
HandleEnd_Rollback(s, success, response) ==
    IF success
    THEN LET answered == [s EXCEPT !.messages =
                             Append(@, ChatMessage("assistant", response["response"]))]
         IN  IF Get(response, "finished", FALSE)
             THEN [answered EXCEPT !.chat_active = FALSE, !.finished = TRUE]
             ELSE answered
    ELSE [s EXCEPT !.messages = SubSeq(@, 1, Len(@) - 1)]

\* _handle_user_message, had it left the chat active when it finishes
HandleEnd_StaysActive(s, success, response) ==
    IF success
    THEN LET answered == [s EXCEPT !.messages =
                             Append(@, ChatMessage("assistant", response["response"]))]
         IN  IF Get(response, "finished", FALSE)
             THEN [answered EXCEPT !.finished = TRUE]
             ELSE answered
    ELSE s

\* _handle_user_message after the call
HandleEnd(s, success, response) ==
    IF success
    THEN LET answered == [s EXCEPT !.messages =
                             Append(@, ChatMessage("assistant", response["response"]))]
         IN  IF Get(response, "finished", FALSE)
             THEN [answered EXCEPT !.chat_active = FALSE, !.finished = TRUE]
             ELSE answered
    ELSE s

\* what the user may type into the chat input (st.chat_input gives no
\* empty text)
ChatInputs == { <<"h","i">>, <<"o","w">> }

\* what the chat API may answer: with or without the finished key
ApiTexts == { <<"o","k">>, <<"E","S","I"," ","2">> }
ApiResponses ==
    {[response |-> t, finished |-> f] : t \in ApiTexts, f \in BOOLEAN}
        \cup {[response |-> t] : t \in ApiTexts}

\* what send_chat_message returns: (True, json) or (False, {"error": ...})
ApiReturns ==
    {<<TRUE, r>> : r \in ApiResponses} \cup {<<FALSE, [error |-> <<"e","r","r">>]>>}

\* a call of send_chat_message: what was sent, the session it was sent from
\* and how it ended
ApiCall(kind, message, history, s) ==
    [kind |-> kind, message |-> message, history |-> history,
     chat_active |-> s.chat_active, finished |-> s.finished,
     outcome |-> "pending"]

Ended(log, success) ==
    [log EXCEPT ![Len(log)].outcome = IF success THEN "ok" ELSE "failed"]

UiInit ==
    /\ session = SessionDefaults
    /\ script = "idle"
    /\ api_log = <<>>

\* the sign-in form is submitted and login_user succeeds (a failed login
\* changes nothing)
SignIn ==
    /\ script = "idle"
    /\ \E t \in {"patient", "staff"} :
          session' = [session EXCEPT !.auth_done = TRUE, !.user_type = t]
    /\ UNCHANGED <<script, api_log>>

\* Sign Out: every key is deleted, the rerun's init_state sets the defaults
SignOut ==
    /\ script = "idle"
    /\ session.auth_done
    /\ session' = SessionDefaults
    /\ UNCHANGED <<script, api_log>>

\* Reset Chat is clicked
ResetChat ==
    /\ script = "idle"
    /\ ChatRendered(session) /\ ResetShown(session)
    /\ session' = reset_chat(session)
    /\ UNCHANGED <<script, api_log>>

\* Start New Assessment is clicked: _start_new_assessment runs to its call
StartAssessment ==
    /\ script = "idle"
    /\ ChatRendered(session) /\ StartShown(session)
    /\ Len(api_log) < MaxRequests
    /\ session' = StartBegin(session)
    /\ api_log' = Append(api_log, ApiCall("start", <<>>, <<>>, session'))
    /\ script' = "starting"

\* the call of _start_new_assessment returns
StartReturns ==
    /\ script = "starting"
    /\ \E ret \in ApiReturns :
          /\ session' = StartEnd(session, ret[1], ret[2])
          /\ api_log' = Ended(api_log, ret[1])
    /\ script' = "idle"

\* a text is entered in the chat input: _handle_user_message runs to its call
UserMessage ==
    /\ script = "idle"
    /\ ChatRendered(session) /\ ChatInputShown(session)
    /\ Len(api_log) < MaxRequests
    /\ \E text \in ChatInputs :
          /\ session' = HandleBegin(session, text)
          /\ api_log' = Append(api_log, ApiCall("message", text, History(session'), session'))
    /\ script' = "sending"

\* the call of _handle_user_message returns
MessageReturns ==
    /\ script = "sending"
    /\ \E ret \in ApiReturns :
          /\ session' = HandleEnd(session, ret[1], ret[2])
          /\ api_log' = Ended(api_log, ret[1])
    /\ script' = "idle"

-----------------------------------------------------------------------------
(* Specifications *)

ChatIdle ==
    /\ state = [messages |-> <<>>, notes |-> <<>>, finished |-> FALSE]
    /\ node = "idle"
    /\ step = 0
    /\ llm_calls = <<>>
    /\ turns = 0
    /\ user_input = <<>>
    /\ before = [messages |-> <<>>, notes |-> <<>>, finished |-> FALSE]

TriageIdle ==
    /\ note = <<>>
    /\ tstate = [note |-> <<>>]
    /\ tnode = "idle"
    /\ pending = NoCall
    /\ tcalls = <<>>
    /\ returns = <<>>
    /\ result = NoResult

UiIdle ==
    /\ session = SessionDefaults
    /\ script = "closed"
    /\ api_log = <<>>

\* the intake dialogue, every input and answer, cut off after MaxSteps steps
Init == ChatInit /\ TriageIdle /\ UiIdle

Next ==
    \/ step < MaxSteps /\ ChatbotStep(Answers) /\ UNCHANGED triageVars /\ UNCHANGED uiVars
    \/ step < MaxSteps /\ HumanStep(RawInputs) /\ UNCHANGED triageVars /\ UNCHANGED uiVars

Spec == Init /\ [][Next]_vars

\* the intake dialogue as run_chat runs it, up to the recursion limit
NextLimit ==
    \/ ChatbotStep(FewAnswers) /\ UNCHANGED triageVars /\ UNCHANGED uiVars
    \/ HumanStep(FewInputs) /\ UNCHANGED triageVars /\ UNCHANGED uiVars

SpecLimit == Init /\ [][NextLimit]_vars

\* one run of run_triage_workflow
InitTriage == ChatIdle /\ TriageInit /\ UiIdle

NextTriage ==
    \/ NurseCall /\ UNCHANGED chatVars /\ UNCHANGED uiVars
    \/ NurseReturn /\ UNCHANGED chatVars /\ UNCHANGED uiVars
    \/ DoctorCall /\ UNCHANGED chatVars /\ UNCHANGED uiVars
    \/ DoctorReturn /\ UNCHANGED chatVars /\ UNCHANGED uiVars
    \/ InferenceFails /\ UNCHANGED chatVars /\ UNCHANGED uiVars
    \/ TriageReturn /\ UNCHANGED chatVars /\ UNCHANGED uiVars

SpecTriage == InitTriage /\ [][NextTriage]_vars

\* one browser session of the user interface
InitUI == ChatIdle /\ TriageIdle /\ UiInit

NextUI ==
    \/ SignIn /\ UNCHANGED chatVars /\ UNCHANGED triageVars
    \/ SignOut /\ UNCHANGED chatVars /\ UNCHANGED triageVars
    \/ ResetChat /\ UNCHANGED chatVars /\ UNCHANGED triageVars
    \/ StartAssessment /\ UNCHANGED chatVars /\ UNCHANGED triageVars
    \/ StartReturns /\ UNCHANGED chatVars /\ UNCHANGED triageVars
    \/ UserMessage /\ UNCHANGED chatVars /\ UNCHANGED triageVars
    \/ MessageReturns /\ UNCHANGED chatVars /\ UNCHANGED triageVars

SpecUI == InitUI /\ [][NextUI]_vars

\* the graph engine runs a node that is due, and every inference call
\* eventually returns or raises
FairSpecTriage == SpecTriage /\ WF_vars(NextTriage)

-----------------------------------------------------------------------------
(* Properties of the intake dialogue *)

\* the user input of the current turn is an exit keyword
ExitTyped == turns > 0 /\ Lower(user_input) \in ExitKeywords

\* the graph is between two turns, or its run is over
TurnEnded == node \in {"human", "END", "GraphRecursionError"}

\* the response the last chatbot step appended
LastResponse == state.messages[Len(state.messages)]

IsTextNote(call)     == call.name = "take_note" /\ "text" \in DOMAIN call.args
IsNonEmptyNote(call) == IsTextNote(call) /\ call.args["text"] # <<>>

\* the texts of the take_note invocations of a response, in order
NoteTexts(response) ==
    LET noted == SelectSeq(response.tool_calls, IsTextNote)
    IN  [i \in 1..Len(noted) |-> noted[i].args["text"]]

HasTextNote(response) == NoteTexts(response) # <<>>

HasNonEmptyNote(response) ==
    \E i \in 1..Len(response.tool_calls) : IsNonEmptyNote(response.tool_calls[i])

\* the take_note texts of all the messages of a list, in order
RECURSIVE AllNoteTexts(_)
AllNoteTexts(msgs) ==
    IF msgs = <<>> THEN <<>>
    ELSE NoteTexts(Head(msgs)) \o AllNoteTexts(Tail(msgs))

\* C1: no inference call is made for a conversation whose finished flag is
\* already true; after an exit keyword the conversation ends without a call
\* of the model.
C1_NoCallOnceFinished ==
    \A i \in 1..Len(llm_calls) : ~llm_calls[i].finished

C6_ExitChangesOnlyFinished ==
    (node = "END" /\ ExitTyped) =>
        /\ state.messages = before.messages
        /\ state.notes = before.notes

\* the step of the graph that runs chatbot_node
C7_ChatbotStep ==
    node = "chatbot" =>
        LET response == state'.messages[Len(state'.messages)]
        IN  /\ Len(state'.messages) = Len(state.messages) + 1
            /\ state'.notes = state.notes \o NoteTexts(response)
            /\ HasTextNote(response) => state'.finished
            /\ ~HasTextNote(response) => state'.finished = state.finished

\* C7: a response's take_note invocations with a text argument append their
\* texts at the end of notes, in order, and set finished in the same step; an
\* invocation with another name or without a text argument changes neither.
\* So notes is always the sequence of the take_note texts received.
C7_NotesAreNoteTexts ==
    /\ [][C7_ChatbotStep]_vars
    /\ [](state.notes = AllNoteTexts(state.messages))

\* a response with another tool and two take_note invocations was recorded
C7_Witness ==
    /\ node = "END"
    /\ Len(LastResponse.tool_calls) = 3
    /\ state.notes = << <<"a">>, <<"b">> >>
    /\ state.finished

\* C9 as stated: a dialogue is never ended or aborted by a step limit.
C9_NeverAborted == node # "GraphRecursionError"

\* C9 as amended: the controller does not count turns; while fewer than
\* recursion_limit steps have run, a dialogue without take_note signal and
\* exit keyword is unfinished and proceeds to its next node; the run ends at
\* END only finished, and is aborted only when recursion_limit steps have run.
C9_EndsBySignalOrLimit ==
    /\ (step < RecursionLimit /\ ~state.finished) => node \in {"chatbot", "human"}
    /\ node = "END" => state.finished
    /\ node = "GraphRecursionError" => step = RecursionLimit
    /\ (TurnEnded /\ ~ExitTyped /\ ~HasTextNote(LastResponse)) => ~state.finished

\* the dialogue is still running after 49 turns without a signal
C9_Witness ==
    /\ turns = 49
    /\ node = "human"
    /\ ~state.finished
    /\ step = RecursionLimit - 1

\* C11: in a turn whose user text is no exit keyword, one User message with
\* that text is appended, then one inference call is made on the system
\* instruction followed by the whole history with the new User message, then
\* one Assistant message is appended; the earlier messages keep content and
\* position.
C11_TurnAppendsTwo ==
    (turns > 0 /\ ~ExitTyped) =>
        LET n    == Len(before.messages)
            msgs == state.messages
        IN  /\ node = "chatbot" =>
                  /\ Len(msgs) = n + 1
                  /\ Len(llm_calls) = turns - 1
            /\ node \in {"human", "END"} =>
                  /\ Len(msgs) = n + 2
                  /\ msgs[n + 2].role = "ai"
                  /\ Len(llm_calls) = turns
                  /\ llm_calls[turns].input =
                        <<Message("system", NURSEBOT_SYSINT, <<>>)>> \o SubSeq(msgs, 1, n + 1)
            /\ Len(msgs) > n
            /\ msgs[n + 1].role = "user"
            /\ msgs[n + 1].content = user_input
            /\ \A i \in 1..n : msgs[i] = before.messages[i]
            /\ \A i, j \in 1..Len(msgs) : msgs[i].id = msgs[j].id => i = j

\* the second turn without exit keyword is complete
C11_Witness ==
    /\ turns = 2
    /\ ~ExitTyped
    /\ node = "human"
    /\ Len(state.messages) = 5
    /\ Len(llm_calls) = 2

IsPrefix(s, t) == Len(s) <= Len(t) /\ SubSeq(t, 1, Len(s)) = s

\* C13: finished never goes from true back to false, notes never loses or
\* reorders an element, and a non-empty notes implies finished.
C13_FinishedAndNotesMonotone ==
    /\ [][(state.finished => state'.finished) /\ IsPrefix(state.notes, state'.notes)]_vars
    /\ [](state.notes # <<>> => state.finished)

\* a note recorded by the chatbot step that follows an exit keyword
C13_Witness ==
    /\ ExitTyped
    /\ node = "END"
    /\ state.notes = <<Flu>>
    /\ state.finished

-----------------------------------------------------------------------------
(* Properties of the triage workflow *)

Iteration == Get(tstate, "iteration", 0)

\* a step of the workflow that ends doctor_step, resp. nurse_step
C12_DoctorStepEnds == pending.role = "Doctor" /\ pending'.role = "none" /\ tnode' # "raised"
C12_NurseStepEnds  == pending.role = "Nurse" /\ pending'.role = "none" /\ tnode' # "raised"

\* C12: the iteration counter starts at 0, grows by exactly 1 in every
\* Doctor step, is unchanged by every Nurse step and never decreases; after
\* a Doctor step the workflow goes to Nurse when iteration < 2 and to END
\* otherwise, and no step runs with iteration >= 2.
C12_IterationCounter ==
    /\ [](tcalls = <<>> => Iteration = 0)
    /\ [](tnode \in {"Nurse", "Doctor"} => Iteration < 2)
    /\ [](pending.role # "none" => Iteration < 2)
    /\ [][/\ Iteration' >= Iteration
          /\ C12_NurseStepEnds => Iteration' = Iteration
          /\ C12_DoctorStepEnds =>
                /\ Iteration' = Iteration + 1
                /\ tnode' = IF Iteration' < 2 THEN "Nurse" ELSE "END"]_vars

\* the second Doctor step ended the workflow
C12_Witness ==
    /\ tnode = "END"
    /\ Iteration = 2
    /\ Len(returns) = 4

Roles(calls) == [i \in 1..Len(calls) |-> calls[i].role]

\* the text the last call of a role returned, among the first k returns
LastReturn(role, k) ==
    LET idx == {j \in 1..k : returns[j].role = role}
    IN  returns[CHOOSE j \in idx : \A h \in idx : h <= j].text

HasReturn(role, k) == \E j \in 1..k : returns[j].role = role

\* C3: a completed run has made exactly 4 inference calls, in the order
\* Nurse, Doctor, Nurse, Doctor, and returns iterations = 2.
C3_FourCalls ==
    result.returned =>
        /\ Roles(tcalls) = <<"Nurse", "Doctor", "Nurse", "Doctor">>
        /\ Roles(returns) = <<"Nurse", "Doctor", "Nurse", "Doctor">>
        /\ result.iterations = 2

\* a run that completed
C3_Witness ==
    /\ tnode = "returned"
    /\ result.returned
    /\ Len(tcalls) = 4

\* C4: every run of the workflow eventually ends, returning or raising.
C4_Terminates == <>(tnode \in {"returned", "raised"})

\* the workflow went from Doctor back to Nurse
C4_Witness ==
    /\ tnode = "Nurse"
    /\ Get(tstate, "iteration", 0) = 1
    /\ Len(returns) = 2

\* C5: the result carries the text of the last Nurse call as esi and the
\* text of the last Doctor call as diagnosis; no default of the result
\* record is used.
C5_LastMessages ==
    result.returned =>
        /\ HasReturn("Nurse", Len(returns)) /\ HasReturn("Doctor", Len(returns))
        /\ result.esi = LastReturn("Nurse", Len(returns))
        /\ result.diagnosis = LastReturn("Doctor", Len(returns))
        /\ {"nurse_msg", "doctor_msg", "iteration"} \subseteq DOMAIN tstate
        /\ result.esi # NA /\ result.diagnosis # NA
        /\ result.iterations # 0

\* a completed run whose two Nurse calls, and its two Doctor calls, differ
C5_Witness ==
    /\ result.returned
    /\ Len(returns) = 4
    /\ returns[1].text # returns[3].text
    /\ returns[2].text # returns[4].text

\* C8: a failed inference call aborts the run at that call: no step runs
\* after it and no result is returned; a result is returned only after all
\* 4 calls returned.
C8_FailureAborts ==
    /\ [](tnode = "raised" => (~result.returned /\ Len(tcalls) = Len(returns) + 1))
    /\ [](result.returned => Len(returns) = 4)
    /\ [][tnode = "raised" => UNCHANGED triageVars]_vars

\* the third call of a run failed
C8_Witness ==
    /\ tnode = "raised"
    /\ Len(tcalls) = 3
    /\ Len(returns) = 2

\* C10: every call gets the note of the run; a Doctor call gets the text of
\* the most recent Nurse call, the first Nurse call an empty doctor message,
\* every later Nurse call the text of the most recent Doctor call.
C10_CallInputs ==
    \A i \in 1..Len(tcalls) :
        LET call == tcalls[i]
        IN  /\ call.inputs.note = note
            /\ call.role = "Doctor" =>
                  /\ HasReturn("Nurse", i - 1)
                  /\ call.inputs.nurse_msg = LastReturn("Nurse", i - 1)
            /\ (call.role = "Nurse" /\ i = 1) => call.inputs.doctor_msg = <<>>
            /\ (call.role = "Nurse" /\ i > 1) =>
                  /\ HasReturn("Doctor", i - 1)
                  /\ call.inputs.doctor_msg = LastReturn("Doctor", i - 1)

\* the second Doctor call was given the second Nurse text, not the first
C10_Witness ==
    /\ Len(tcalls) = 4
    /\ returns[1].text # returns[3].text
    /\ tcalls[4].inputs.nurse_msg = returns[3].text
    /\ tcalls[3].inputs.doctor_msg = returns[2].text

-----------------------------------------------------------------------------
(* Properties of the user interface session *)

\* C14: chat_active and finished are never both true; a user message is sent
\* to the chat API only from a session with chat_active = true and finished
\* = false; once finished, the next call of the chat API is the one that
\* starts a new assessment.
C14_ActiveXorFinished ==
    /\ [](~(session.chat_active /\ session.finished))
    /\ [](\A i \in 1..Len(api_log) :
             api_log[i].kind = "message" =>
                 api_log[i].chat_active /\ ~api_log[i].finished)
    /\ [][(session.finished /\ Len(api_log') > Len(api_log)) =>
             /\ api_log'[Len(api_log')].kind = "start"
             /\ api_log'[Len(api_log')].history = <<>>]_vars

\* an assessment has finished: the chat input is gone, a new start is offered
C14_Witness ==
    /\ session.finished /\ ~session.chat_active
    /\ script = "idle"
    /\ Len(api_log) = 2
    /\ api_log[2].kind = "message" /\ api_log[2].outcome = "ok"
    /\ ChatRendered(session) /\ StartShown(session) /\ ~ChatInputShown(session)

\* the script run returns from a failed call of the chat API
C15_MessageFails ==
    script = "sending" /\ script' = "idle" /\ api_log'[Len(api_log')].outcome = "failed"
C15_StartFails ==
    script = "starting" /\ script' = "idle" /\ api_log'[Len(api_log')].outcome = "failed"

\* C15: a failed _handle_user_message leaves the session as it is, the
\* user's message last in the history and the flags unchanged, so that the
\* next message's history has two user messages in a row; a failed
\* _start_new_assessment leaves chat_active = false, finished = false and no
\* messages; the session stays signed in.
C15_FailureKeepsSession ==
    /\ [][C15_MessageFails =>
             /\ session'.messages = session.messages
             /\ session.messages[Len(session.messages)].role = "user"
             /\ session'.chat_active = session.chat_active
             /\ session'.finished = session.finished
             /\ session'.auth_done /\ ChatInputShown(session')]_vars
    /\ [][C15_StartFails =>
             /\ ~session'.chat_active
             /\ ~session'.finished
             /\ session'.messages = <<>>
             /\ session'.auth_done /\ StartShown(session')]_vars
    /\ [](\A i \in 1..(Len(api_log) - 1) :
             (/\ api_log[i].kind = "message" /\ api_log[i].outcome = "failed"
              /\ api_log[i + 1].kind = "message") =>
                 LET h == api_log[i + 1].history
                 IN  /\ Len(h) = Len(api_log[i].history) + 1
                     /\ SubSeq(h, 1, Len(h) - 1) = api_log[i].history
                     /\ h[Len(h) - 1].role = "user"
                     /\ h[Len(h)].role = "user")

\* a message was sent after a message whose call had failed
C15_Witness ==
    /\ Len(api_log) = 3
    /\ api_log[2].kind = "message" /\ api_log[2].outcome = "failed"
    /\ api_log[3].kind = "message"
    /\ Len(api_log[3].history) = 3

====
